---- MODULE Spec2Model ----
(***************************************************************************)
(* Model of the calculator client of the menu daemon (calc.py): the        *)
(* registration handshake, the event loop of Calculator.run, the history   *)
(* ledger `previous`, the evaluator call and the choice projection.        *)
(* Positions are 0-based as in the source; sequences here are 1-based, so  *)
(* the entry at position i is previous[i + 1].                             *)
(***************************************************************************)
EXTENDS Integers, Sequences, FiniteSets, TLC

VARIABLES pc, previous, client_id, replies, sent, printed, event, before,
          evaluated, nevents

vars == <<pc, previous, client_id, replies, sent, printed, event, before,
          evaluated, nevents>>

\* ---------------------------------------------------------------- bounds
MaxEvents == 5
MaxIndex == 2

\* ------------------------------------------------------- program constants
SubscribeMask == 13
ProtocolVersion == 0

\* ------------------------------------------------------------- sentinels
NoInput == <<"NoInput">>
NothingYet == <<"NothingYet">>
None == <<"None">>

Text(s) == <<"str", s>>
Value(v) == <<"int", v>>

IsNothingYet(out) == out = NothingYet

\* str() of an input: NoInput.__str__ or the text itself
StrInp(inp) == IF inp = NoInput THEN "/no input/" ELSE inp[2]

\* str() of a result: NothingYet.__str__ or the decimal form of the number
StrOut(out) == IF out = NothingYet THEN "/nothing yet/"
               ELSE IF out[2] < 0 THEN "-" \o ToString(0 - out[2])
               ELSE ToString(out[2])

\* str.strip on the texts of the model; NoInput.strip returns the sentinel
Strip(inp) == IF inp = NoInput THEN NoInput
              ELSE IF inp[2] = " 2+2" THEN Text("2+2")
              ELSE inp

\* ---------------------------------------------------------------- entries
Previous(inp, out, broken) == [inp |-> inp, out |-> out, broken |-> broken]

EmptyPrevious == Previous(NoInput, NothingYet, FALSE)

equals_sign(p) == IF p.broken THEN "/=" ELSE "="

\* ------------------------------------------------------------- iteration
\* an iteration in ledger order, oldest first
iter_previousForward(prev, include_last) ==
    LET n == IF include_last THEN Len(prev) ELSE Len(prev) - 1
    IN [k \in 1..n |-> <<k - 1, prev[k]>>]

\* (position, entry) pairs, most recent first
iter_previous(prev, include_last) ==
    LET last == Len(prev) - 1
        n == IF include_last THEN Len(prev) ELSE Len(prev) - 1
        skip == IF include_last THEN 0 ELSE 1
    IN [k \in 1..n |-> <<last - (k - 1 + skip), prev[Len(prev) - (k - 1 + skip)]>>]

Name(idx) == "_" \o ToString(idx)

\* bindings that also name the current entry
generate_localsWithLast(prev) ==
    LET it == iter_previous(prev, TRUE)
    IN [nm \in {Name(it[k][1]) : k \in DOMAIN it} |->
          it[CHOOSE k \in DOMAIN it : Name(it[k][1]) = nm][2].out]

\* the dict comprehension of generate_locals
generate_locals(prev) ==
    LET it == iter_previous(prev, FALSE)
    IN [nm \in {Name(it[k][1]) : k \in DOMAIN it} |->
          it[CHOOSE k \in DOMAIN it : Name(it[k][1]) = nm][2].out]

\* ------------------------------------------------------------- evaluator
Texts == {"", "2+2", " 2+2", "2+", "_0*10", "_1+1", "exit()"}

Ok(v) == [kind |-> "ok", val |-> v]
Error == [kind |-> "Exception", val |-> 0]
Exit == [kind |-> "SystemExit", val |-> 0]

\* a name looked up in the locals: NameError when unbound, TypeError when
\* the bound object is the NothingYet sentinel (it has no arithmetic)
Operand(nm, locals) ==
    IF nm \notin DOMAIN locals THEN Error
    ELSE IF IsNothingYet(locals[nm]) THEN Error
    ELSE Ok(locals[nm][2])

\* eval(data, {}, locals) on the texts of the model
Eval(data, locals) ==
    CASE data = "2+2" -> Ok(2 + 2)
      [] data = " 2+2" -> Ok(2 + 2)
      [] data = "_0*10" ->
           LET a == Operand("_0", locals)
           IN IF a.kind = "ok" THEN Ok(a.val * 10) ELSE Error
      [] data = "_1+1" ->
           LET a == Operand("_1", locals)
           IN IF a.kind = "ok" THEN Ok(a.val + 1) ELSE Error
      [] data = "exit()" -> Exit
      [] data = "2+" -> Error
      [] data = "" -> Error
      [] OTHER -> Error

\* ------------------------------------------------------------- messages
Msg(kind, json) == [kind |-> kind, json |-> json]

SubscribeMsg ==
    Msg("subscribe", [subscribe_to |-> SubscribeMask,
                      protocol_version |-> ProtocolVersion,
                      matcher |-> "none"])

\* a row whose priority is the position itself
OptionPositivePriority(idx, p) ==
    [text |-> ToString(idx) \o ": " \o StrInp(Strip(p.inp)) \o " "
                \o equals_sign(p) \o " " \o StrOut(p.out),
     id |-> idx,
     priority |-> idx]

Option(idx, p) ==
    [text |-> ToString(idx) \o ": " \o StrInp(Strip(p.inp)) \o " "
                \o equals_sign(p) \o " " \o StrOut(p.out),
     id |-> idx,
     priority |-> 0 - idx]

Options(prev) ==
    LET it == iter_previous(prev, TRUE)
    IN [k \in DOMAIN it |-> Option(it[k][1], it[k][2])]

set_choices(prev) ==
    Msg("set_choices", [key |-> "set_choices", data |-> [options |-> Options(prev)]])

clear_input == Msg("set_input", [key |-> "set_input", data |-> ""])

\* the argument of the send after the loop is already a JSON text, so the
\* line on the wire is a JSON string, not an object
StopMsg == Msg("stop", <<"json.dumps", [key |-> "stop"]>>)

\* ------------------------------------------------------------- inbound
Ids == {7, 8}
RegReplies == [key : {"busy", "ack"}, data : Ids]

Indices == -1 .. MaxIndex

Ev(key, data) == [key |-> key, data |-> data]

\* previous[data] with Python's index rules
InRange(prev, i) == i >= 0 - Len(prev) /\ i < Len(prev)
\* a lookup that ignores the index and takes the current entry
AtLast(prev, i) == prev[Len(prev)]

At(prev, i) == IF i >= 0 THEN prev[i + 1] ELSE prev[Len(prev) + i + 1]

\* no evaluation was made for the last message
NoEval == [kind |-> "none", val |-> 0, locals |-> <<>>]

\* ---------------------------------------------------------------- state
Init ==
    /\ pc = "start"
    /\ previous = <<EmptyPrevious>>
    /\ client_id = None
    /\ replies = <<>>
    /\ sent = <<>>
    /\ printed = <<>>
    /\ event = Ev("", None)
    /\ before = <<EmptyPrevious>>
    /\ evaluated = NoEval
    /\ nevents = 0

\* ------------------------------------------------------------- handshake
\* register(): the subscribe request
Subscribe ==
    /\ pc = "start"
    /\ sent' = <<SubscribeMsg>>
    /\ pc' = "register_first"
    /\ UNCHANGED <<previous, client_id, replies, printed, event, before, evaluated, nevents>>

\* a first reply taken as the registration whatever its key
RegisterFirstTakesBusy(m) ==
    /\ pc = "register_first"
    /\ replies' = Append(replies, m)
    /\ client_id' = Value(m.data)
    /\ sent' = <<set_choices(previous)>>
    /\ pc' = "recv"
    /\ UNCHANGED <<previous, printed, event, before, evaluated, nevents>>

\* register(): the first reply; when it is not "busy", register returns its
\* data and run sends the first choice list and waits for an event
RegisterFirst(m) ==
    /\ pc = "register_first"
    /\ replies' = Append(replies, m)
    /\ IF m.key = "busy"
         THEN /\ pc' = "register_second"
              /\ sent' = <<>>
              /\ UNCHANGED client_id
         ELSE /\ client_id' = Value(m.data)
              /\ sent' = <<set_choices(previous)>>
              /\ pc' = "recv"
    /\ UNCHANGED <<previous, printed, event, before, evaluated, nevents>>

\* register(): the reply after a "busy" one
RegisterSecond(m) ==
    /\ pc = "register_second"
    /\ replies' = Append(replies, m)
    /\ client_id' = Value(m.data)
    /\ sent' = <<set_choices(previous)>>
    /\ pc' = "recv"
    /\ UNCHANGED <<previous, printed, event, before, evaluated, nevents>>

\* ------------------------------------------------------------ event loop
\* message = await self.recv()
Recv(m) ==
    /\ pc = "recv"
    /\ nevents < MaxEvents
    /\ nevents' = nevents + 1
    /\ event' = m
    /\ before' = previous
    /\ UNCHANGED <<client_id, replies>>

\* a fresh entry opened when the current one has an input, not a result
SelectNoneOnInput ==
    /\ Recv(Ev("select", None))
    /\ IF previous[Len(previous)].inp # NoInput
         THEN /\ previous' = Append(previous, EmptyPrevious)
              /\ sent' = <<clear_input, set_choices(previous')>>
         ELSE /\ previous' = previous
              /\ sent' = <<set_choices(previous')>>
    /\ pc' = "recv"
    /\ evaluated' = NoEval
    /\ UNCHANGED printed

\* a fresh entry put in front of the ledger instead of at its end
SelectNonePrepends ==
    /\ Recv(Ev("select", None))
    /\ IF ~IsNothingYet(previous[Len(previous)].out)
         THEN /\ previous' = <<EmptyPrevious>> \o previous
              /\ sent' = <<clear_input, set_choices(previous')>>
         ELSE /\ previous' = previous
              /\ sent' = <<set_choices(previous')>>
    /\ pc' = "recv"
    /\ evaluated' = NoEval
    /\ UNCHANGED printed

\* a fresh entry opened without looking at the current result
SelectNoneAlways ==
    /\ Recv(Ev("select", None))
    /\ previous' = Append(previous, EmptyPrevious)
    /\ sent' = <<clear_input, set_choices(previous')>>
    /\ pc' = "recv"
    /\ evaluated' = NoEval
    /\ UNCHANGED printed

\* the choice list rendered before the new entry is opened
SelectNoneStale ==
    /\ Recv(Ev("select", None))
    /\ IF ~IsNothingYet(previous[Len(previous)].out)
         THEN /\ previous' = Append(previous, EmptyPrevious)
              /\ sent' = <<set_choices(previous), clear_input>>
         ELSE /\ previous' = previous
              /\ sent' = <<set_choices(previous')>>
    /\ pc' = "recv"
    /\ evaluated' = NoEval
    /\ UNCHANGED printed

\* select with no payload: open a fresh entry when the current one has a result
SelectNone ==
    /\ Recv(Ev("select", None))
    /\ IF ~IsNothingYet(previous[Len(previous)].out)
         THEN /\ previous' = Append(previous, EmptyPrevious)
              /\ sent' = <<clear_input, set_choices(previous')>>
         ELSE /\ previous' = previous
              /\ sent' = <<set_choices(previous')>>
    /\ pc' = "recv"
    /\ evaluated' = NoEval
    /\ UNCHANGED printed

\* a selection that returns from inside the loop, without the stop message
SelectIndexNoStop(i) ==
    /\ Recv(Ev("select", Value(i)))
    /\ IF InRange(previous, i)
         THEN /\ printed' = Append(printed, StrOut(At(previous, i).out))
              /\ sent' = <<>>
              /\ pc' = "returned"
         ELSE /\ printed' = printed
              /\ sent' = <<>>
              /\ pc' = "IndexError"
    /\ evaluated' = NoEval
    /\ UNCHANGED previous

\* select with an index: print the entry's result, leave the loop, send stop
SelectIndex(i) ==
    /\ Recv(Ev("select", Value(i)))
    /\ IF InRange(previous, i)
         THEN /\ printed' = Append(printed, StrOut(At(previous, i).out))
              /\ sent' = <<StopMsg>>
              /\ pc' = "returned"
         ELSE /\ printed' = printed
              /\ sent' = <<>>
              /\ pc' = "IndexError"
    /\ evaluated' = NoEval
    /\ UNCHANGED previous

\* curr.broken = False, executed before the evaluation
ResetBroken(curr) == [curr EXCEPT !.broken = FALSE]

\* an except branch that marks the entry without looking at its result
OnExceptionAlwaysBroken(curr, data) ==
    IF data # ""
    THEN [curr EXCEPT !.inp = Text(data), !.broken = TRUE]
    ELSE [curr EXCEPT !.inp = NoInput]

\* an except branch without the test for an empty text
OnExceptionEmptyAsText(curr, data) ==
    [curr EXCEPT !.inp = Text(data),
                 !.broken = IF ~IsNothingYet(curr.out) THEN TRUE ELSE curr.broken]

\* an except branch that records the text only next to a computed result
OnExceptionKeepsInput(curr, data) ==
    IF data # ""
    THEN IF ~IsNothingYet(curr.out)
         THEN [curr EXCEPT !.inp = Text(data), !.broken = TRUE]
         ELSE curr
    ELSE [curr EXCEPT !.inp = NoInput]

\* an except branch that records the text and never marks the entry
OnExceptionNoBroken(curr, data) ==
    IF data # ""
    THEN [curr EXCEPT !.inp = Text(data)]
    ELSE [curr EXCEPT !.inp = NoInput]

\* the except branch: curr is the entry as the try block left it
OnException(curr, data) ==
    IF data # ""
    THEN [curr EXCEPT !.inp = Text(data),
                      !.broken = IF ~IsNothingYet(curr.out) THEN TRUE ELSE curr.broken]
    ELSE [curr EXCEPT !.inp = NoInput]

\* an else branch that stores the result and keeps the old input
OnSuccessKeepsInput(curr, data, out) == Previous(curr.inp, Value(out), FALSE)

\* the else branch: a new entry takes the last position
OnSuccess(curr, data, out) == Previous(Text(data), Value(out), FALSE)

\* an input_change that edits the oldest entry, previous[0], not previous[-1]
InputChangeOldest(data) ==
    /\ Recv(Ev("input_change", Text(data)))
    /\ LET curr == ResetBroken(previous[1])
           locals == generate_locals(previous)
           res == Eval(data, locals)
       IN /\ evaluated' = [kind |-> res.kind, val |-> res.val, locals |-> locals]
          /\ CASE res.kind = "ok" ->
                    /\ previous' = [previous EXCEPT ![1] = OnSuccess(curr, data, res.val)]
                    /\ sent' = <<set_choices(previous')>>
                    /\ pc' = "recv"
               [] res.kind = "Exception" ->
                    /\ previous' = [previous EXCEPT ![1] = OnException(curr, data)]
                    /\ sent' = <<set_choices(previous')>>
                    /\ pc' = "recv"
               [] OTHER ->
                    /\ previous' = [previous EXCEPT ![1] = curr]
                    /\ sent' = <<>>
                    /\ pc' = "SystemExit"
    /\ UNCHANGED printed

\* input_change: evaluate the text against the earlier results; an exception
\* that is not an Exception (SystemExit) is not caught and ends run
InputChange(data) ==
    /\ Recv(Ev("input_change", Text(data)))
    /\ LET last == Len(previous)
           curr == ResetBroken(previous[last])
           locals == generate_locals(previous)
           res == Eval(data, locals)
       IN /\ evaluated' = [kind |-> res.kind, val |-> res.val, locals |-> locals]
          /\ CASE res.kind = "ok" ->
                    /\ previous' = [previous EXCEPT ![last] = OnSuccess(curr, data, res.val)]
                    /\ sent' = <<set_choices(previous')>>
                    /\ pc' = "recv"
               [] res.kind = "Exception" ->
                    /\ previous' = [previous EXCEPT ![last] = OnException(curr, data)]
                    /\ sent' = <<set_choices(previous')>>
                    /\ pc' = "recv"
               [] OTHER ->
                    /\ previous' = [previous EXCEPT ![last] = curr]
                    /\ sent' = <<>>
                    /\ pc' = "SystemExit"
    /\ UNCHANGED printed

\* window_closed handled like a selection of the current entry
WindowClosedPrints ==
    /\ Recv(Ev("window_closed", None))
    /\ pc' = "returned"
    /\ sent' = <<>>
    /\ evaluated' = NoEval
    /\ printed' = Append(printed, StrOut(previous[Len(previous)].out))
    /\ UNCHANGED previous

\* window_closed: return from run
WindowClosed ==
    /\ Recv(Ev("window_closed", None))
    /\ pc' = "returned"
    /\ sent' = <<>>
    /\ evaluated' = NoEval
    /\ UNCHANGED <<previous, printed>>

\* a key that none of the three tests matches: the loop goes round again
OtherKeys == {"hover"}

OtherKey(k) ==
    /\ Recv(Ev(k, None))
    /\ pc' = "recv"
    /\ sent' = <<set_choices(previous)>>
    /\ evaluated' = NoEval
    /\ UNCHANGED <<previous, printed>>

Next ==
    \/ Subscribe
    \/ \E m \in RegReplies : RegisterFirst(m)
    \/ \E m \in RegReplies : RegisterSecond(m)
    \/ SelectNone
    \/ \E i \in Indices : SelectIndex(i)
    \/ \E t \in Texts : InputChange(t)
    \/ WindowClosed
    \/ \E k \in OtherKeys : OtherKey(k)

Spec == Init /\ [][Next]_vars

\* ---------------------------------------------------------------- claims
Last(prev) == prev[Len(prev)]
Terminated == pc \in {"returned", "IndexError", "SystemExit"}
IsIndexSelect == event.key = "select" /\ event.data # None
IsNullSelect == event.key = "select" /\ event.data = None
IsInputChange == event.key = "input_change"

\* C1: a select whose payload is an index i with 0 <= i < len(ledger) ends
\* the session, the output is the str() of the result of the entry at
\* position i as it stood when the event arrived, and the ledger is unchanged.
C1_SelectIndexEmitsEntryResult ==
    (IsIndexSelect /\ event.data[2] >= 0 /\ event.data[2] < Len(before)) =>
        /\ pc = "returned"
        /\ printed = <<StrOut(before[event.data[2] + 1].out)>>
        /\ previous = before

\* C1 witness: position 0 of a two-entry ledger is selected, and it is not
\* the current entry
C1_Witness ==
    /\ IsIndexSelect /\ event.data[2] = 0
    /\ Len(before) = 2
    /\ before[1].out # before[2].out
    /\ pc = "returned"
    /\ printed = <<"4">>

\* C2: a window_closed event ends the session at once: nothing is printed
\* and no further message is sent.
C2_WindowClosedNoOutput ==
    event.key = "window_closed" => (pc = "returned" /\ printed = <<>> /\ sent = <<>>)

\* C2 witness: the window is closed while the ledger holds computed results
C2_Witness ==
    /\ event.key = "window_closed"
    /\ pc = "returned"
    /\ Len(previous) = 2
    /\ ~IsNothingYet(previous[1].out)
    /\ ~IsNothingYet(previous[2].out)

\* C3: the session ends only on a select with an index or a window_closed;
\* after any input_change and after any select without payload the session
\* is waiting for the next event.
C3_OnlySelectIndexOrWindowClosedEnd ==
    /\ Terminated => (IsIndexSelect \/ event.key = "window_closed")
    /\ (IsInputChange \/ IsNullSelect) => pc = "recv"

\* number of messages of one kind among those sent since the last read
CountKind(msgs, kind) == Cardinality({k \in DOMAIN msgs : msgs[k].kind = kind})

\* C4: whenever the session waits for an event (after the handshake and
\* after every event that did not end it), exactly one set_choices has been
\* sent since the previous read, it is the last message sent, and its
\* options are the projection of the ledger as the transition left it.
C4_OneSetChoicesAfterTransition ==
    pc = "recv" =>
        /\ CountKind(sent, "set_choices") = 1
        /\ Last(sent).kind = "set_choices"
        /\ Last(sent).json.key = "set_choices"
        /\ Last(sent).json.data.options = Options(previous)

\* C4 witness: an event changed the ledger and another message was sent
\* before the choice list
C4_Witness ==
    /\ pc = "recv"
    /\ IsNullSelect
    /\ Len(previous) = Len(before) + 1
    /\ Len(sent) = 2
    /\ Len(Last(sent).json.data.options) = 3

\* C5: after an input_change whose text evaluates to v, the last entry is
\* exactly {input: text, result: v, broken: false} and the ledger has the
\* length it had.
C5_SuccessReplacesCurrent ==
    (IsInputChange /\ evaluated.kind = "ok") =>
        /\ Len(previous) = Len(before)
        /\ Last(previous) = [inp |-> event.data, out |-> Value(evaluated.val), broken |-> FALSE]

\* C5 witness: the replaced entry was broken and had another input and
\* another result
C5_Witness ==
    /\ IsInputChange /\ evaluated.kind = "ok"
    /\ Last(before).broken
    /\ Last(before).inp # event.data
    /\ Last(before).out # Value(evaluated.val)
    /\ Last(previous).out = Value(evaluated.val)

\* C6: after an input_change with a non-empty text on which the evaluator
\* raised an Exception, the last entry has that text as input and the result
\* it had; it is broken exactly when that result is a computed value, and
\* then its choice row reads "<pos>: <text> /= <old result>" ("/=" stands
\* for the not-equal sign of the source).
C6_FailureKeepsResultMarksBroken ==
    (IsInputChange /\ evaluated.kind = "Exception" /\ event.data # Text("")) =>
        /\ Len(previous) = Len(before)
        /\ Last(previous).inp = event.data
        /\ Last(previous).out = Last(before).out
        /\ Last(previous).broken = (Last(before).out # NothingYet)
        /\ Last(previous).broken =>
              Last(sent).json.data.options[1].text =
                  ToString(Len(previous) - 1) \o ": " \o StrInp(Strip(event.data))
                      \o " /= " \o StrOut(Last(before).out)

\* C6 witness: an entry with a computed result was edited to a failing text
C6_Witness ==
    /\ IsInputChange /\ evaluated.kind = "Exception"
    /\ event.data = Text("2+")
    /\ Last(before) = [inp |-> Text("2+2"), out |-> Value(4), broken |-> FALSE]
    /\ Last(previous) = [inp |-> Text("2+"), out |-> Value(4), broken |-> TRUE]
    /\ Last(sent).json.data.options[1].text = "0: 2+ /= 4"

C8_InputIsLastText ==
    (IsInputChange /\ evaluated.kind \in {"ok", "Exception"}) =>
        Last(previous).inp = IF event.data # Text("") THEN event.data ELSE NoInput

\* C8 witness: a success, then a failure, then the empty text on one entry
C8_Witness ==
    /\ IsInputChange /\ event.data = Text("")
    /\ nevents >= 3
    /\ Last(before).inp = Text("2+")
    /\ Last(before).out = Value(4)
    /\ Last(previous).inp = NoInput

\* C9: on a select without payload, when the current entry has a computed
\* result exactly one empty entry is appended and one set_input with empty
\* data is sent, before the set_choices; when the current result is the
\* "nothing yet" sentinel the ledger is unchanged and no set_input is sent.
C9_NullSelectAdvances ==
    IsNullSelect =>
        IF Last(before).out # NothingYet
        THEN /\ previous = Append(before, [inp |-> NoInput, out |-> NothingYet, broken |-> FALSE])
             /\ Len(sent) = 2
             /\ sent[1].kind = "set_input"
             /\ sent[1].json = [key |-> "set_input", data |-> ""]
             /\ sent[2].kind = "set_choices"
        ELSE /\ previous = before
             /\ CountKind(sent, "set_input") = 0

\* C9 witness: the second entry of the ledger has a result and a third is opened
C9_Witness ==
    /\ IsNullSelect
    /\ Len(before) = 2
    /\ Last(before).out = Value(40)
    /\ Len(previous) = 3
    /\ Last(previous).out = NothingYet

\* C9 witness of the other case: nothing to advance past
C9_WitnessNoop ==
    /\ IsNullSelect
    /\ Len(before) = 2
    /\ Last(before).out = NothingYet
    /\ previous = before

InHandshake == pc \in {"start", "register_first", "register_second"}

\* C10: register sends one subscribe message and reads one or two replies:
\* after a "busy" first reply it reads one more and returns the data of that
\* second reply, otherwise it returns the data of the first and reads no
\* more; until it has returned no event is read and no set_choices is sent.
C10_RegisterSkipsBusy ==
    /\ pc = "start" => sent = <<>>
    /\ pc = "register_first" =>
          (Len(sent) = 1 /\ sent[1].kind = "subscribe" /\ replies = <<>>)
    /\ pc = "register_second" =>
          (Len(replies) = 1 /\ replies[1].key = "busy" /\ client_id = None)
    /\ pc # "register_first" => CountKind(sent, "subscribe") = 0
    /\ InHandshake =>
          (nevents = 0 /\ event.key = "" /\ CountKind(sent, "set_choices") = 0)
    /\ ~InHandshake =>
          IF replies[1].key = "busy"
          THEN Len(replies) = 2 /\ client_id = Value(replies[2].data)
          ELSE Len(replies) = 1 /\ client_id = Value(replies[1].data)

\* C10 witness: a busy reply carrying one number, then the registration
\* carrying another
C10_Witness ==
    /\ pc = "recv"
    /\ Len(replies) = 2
    /\ replies[1] = [key |-> "busy", data |-> 8]
    /\ replies[2] = [key |-> "ack", data |-> 7]
    /\ client_id = Value(7)

\* the options of the choice list last sent
SentOptions == Last(sent).json.data.options

\* the row text of an entry at a position, written out
RowText(i, p) ==
    ToString(i) \o ": "
        \o (IF p.inp = NoInput THEN "/no input/" ELSE StrInp(Strip(p.inp)))
        \o (IF p.broken THEN " /= " ELSE " = ")
        \o (IF p.out = NothingYet THEN "/nothing yet/" ELSE StrOut(p.out))

\* C11: the choice list sent for a ledger of N entries has N rows; the k-th
\* row (k = 1..N) is the row of the entry at position N - k, with id N - k,
\* priority -(N - k) and that entry's text, the current entry included even
\* when its input and result are both sentinels.
C11_ProjectionCoversLedger ==
    pc = "recv" =>
        /\ Len(SentOptions) = Len(previous)
        /\ \A k \in 1..Len(SentOptions) :
              LET i == Len(previous) - k
              IN /\ SentOptions[k].id = i
                 /\ SentOptions[k].priority = 0 - i
                 /\ SentOptions[k].text = RowText(i, previous[i + 1])

\* C11 witness: three entries, the current one with both sentinels
C11_Witness ==
    /\ pc = "recv"
    /\ Len(previous) = 3
    /\ Last(previous) = [inp |-> NoInput, out |-> NothingYet, broken |-> FALSE]
    /\ Len(SentOptions) = 3
    /\ SentOptions[1].text = "2: /no input/ = /nothing yet/"
    /\ SentOptions[3].id = 0

\* C12 as claimed: the rows, read in the order they are sent, have strictly
\* decreasing priorities.
C12_PriorityStrictlyDecreasing ==
    pc = "recv" =>
        \A k \in 1..(Len(SentOptions) - 1) :
            SentOptions[k].priority > SentOptions[k + 1].priority

\* C12 amended: the rows, read in the order they are sent (most recent
\* entry first), have strictly increasing priorities, from -(N - 1) up to 0.
C12_PriorityStrictlyIncreasing ==
    pc = "recv" =>
        /\ \A k \in 1..(Len(SentOptions) - 1) :
              SentOptions[k].priority < SentOptions[k + 1].priority
        /\ SentOptions[1].priority = 0 - (Len(previous) - 1)
        /\ SentOptions[Len(SentOptions)].priority = 0

\* C12 witness: a list of three rows with priorities -2, -1, 0
C12_Witness ==
    /\ pc = "recv"
    /\ Len(SentOptions) = 3
    /\ SentOptions[1].priority = -2
    /\ SentOptions[2].priority = -1
    /\ SentOptions[3].priority = 0

\* C13: the bindings handed to the evaluator at an input_change on a ledger
\* of N entries are the names _0 .. _(N-2), each bound to the result of the
\* entry at its position; the current entry has no name, so a text that
\* names it raises.
C13_BindingsExcludeCurrent ==
    IsInputChange =>
        /\ DOMAIN evaluated.locals = {"_" \o ToString(i) : i \in 0..(Len(before) - 2)}
        /\ \A i \in 0..(Len(before) - 2) :
              evaluated.locals["_" \o ToString(i)] = before[i + 1].out
        /\ (event.data = Text("_1+1") /\ Len(before) = 2) => evaluated.kind = "Exception"
        /\ (event.data = Text("_0*10") /\ Len(before) = 1) => evaluated.kind = "Exception"

\* C13 witness: _0*10 evaluated on the second entry with _0 bound to 4, the
\* second entry already holding a result of its own
C13_Witness ==
    /\ IsInputChange /\ event.data = Text("_0*10")
    /\ Len(before) = 2
    /\ before[1].out = Value(4)
    /\ before[2].out = Value(4)
    /\ evaluated.kind = "ok" /\ evaluated.val = 40
    /\ DOMAIN evaluated.locals = {"_0"}

\* C14 as claimed: no stop message is ever sent.
C14_StopNeverSent == CountKind(sent, "stop") = 0

\* C14 amended: a stop message is sent exactly when a select with an index
\* has printed its entry: the break leaves the loop and reaches the send
\* after it; that message is the only one sent then and is the JSON text of
\* {key: stop} sent as a JSON string. On window_closed, and when the session
\* ends otherwise, no stop is sent.
C14_StopOnlyAfterIndexSelect ==
    /\ (pc = "returned" /\ IsIndexSelect) <=> CountKind(sent, "stop") > 0
    /\ CountKind(sent, "stop") > 0 =>
          /\ Len(sent) = 1
          /\ sent[1].json = <<"json.dumps", [key |-> "stop"]>>
          /\ Len(printed) = 1
    /\ event.key = "window_closed" => CountKind(sent, "stop") = 0

\* C14 witness: the session ended on a select with an index and sent stop
C14_Witness ==
    /\ pc = "returned"
    /\ IsIndexSelect /\ event.data = Value(1)
    /\ printed = <<"40">>
    /\ Len(sent) = 1 /\ sent[1].kind = "stop"

\* C15: an event whose key is none of select, input_change, window_closed
\* ends the session; no further set_choices is sent and no further event read.
C15_UnknownKeyFatal ==
    (event.key \notin {"", "select", "input_change", "window_closed"}) =>
        /\ Terminated
        /\ CountKind(sent, "set_choices") = 0

\* C16: the ledger is never empty and starts as one empty entry; an event
\* never shortens it and lengthens it by at most one, and only when the event
\* is a select without payload on a current entry with a computed result;
\* every entry of the ledger before the event that was not the current one is
\* still at its position, and so is the current one when an entry is added.
C16_LedgerGrowsOnlyByAdvance ==
    /\ Len(previous) >= 1
    /\ nevents = 0 => previous = <<[inp |-> NoInput, out |-> NothingYet, broken |-> FALSE]>>
    /\ Len(previous) >= Len(before)
    /\ Len(previous) <= Len(before) + 1
    /\ Len(previous) = Len(before) + 1 =>
          /\ IsNullSelect
          /\ Last(before).out # NothingYet
          /\ previous[Len(before)] = Last(before)
    /\ \A i \in 1..(Len(before) - 1) : previous[i] = before[i]

\* C16 witness: a third entry is opened behind two entries that differ
C16_Witness ==
    /\ IsNullSelect
    /\ Len(before) = 2
    /\ Len(previous) = 3
    /\ previous[1].out = Value(4)
    /\ previous[2].out = Value(40)

\* C17: no step changes an entry below the last position of the ledger it
\* starts from: such an entry is the same, at the same position, after the
\* step; so an entry that has been superseded never changes again.
C17_EarlierEntriesImmutable ==
    [][\A i \in 1..(Len(previous) - 1) :
          Len(previous') >= i /\ previous'[i] = previous[i]]_vars

\* C17 witness: an input_change rewrote the current entry of a two-entry
\* ledger and left the superseded one alone
C17_Witness ==
    /\ IsInputChange
    /\ Len(before) = 2 /\ Len(previous) = 2
    /\ previous[2] # before[2]
    /\ previous[1] = before[1]
    /\ previous[1].out = Value(4)

\* C18: every broken entry of the ledger has a computed result.
C18_BrokenHasResult ==
    \A k \in 1..Len(previous) : previous[k].broken => previous[k].out # NothingYet

\* C18 witness: a broken entry, and an entry without result that was given
\* a failing text
C18_Witness ==
    /\ Len(previous) = 2
    /\ previous[1].broken /\ previous[1].out = Value(4)
    /\ previous[2] = [inp |-> Text("2+"), out |-> NothingYet, broken |-> FALSE]

\* the bindings an evaluation at position k (1-based) is given
BindingsAt(prev, k) == generate_locals(SubSeq(prev, 1, k))

\* an entry holds a result that its input did not produce: results are only
\* written together with the text that evaluated to them, so the input is
\* another one exactly when it is the "no input" sentinel or a text that
\* does not evaluate against the entries below it
Stale(prev, k) ==
    /\ prev[k].out # NothingYet
    /\ \/ prev[k].inp = NoInput
       \/ Eval(prev[k].inp[2], BindingsAt(prev, k)).kind # "ok"

\* C19: every entry that holds a computed result and whose input is no
\* longer the text that produced it is broken, so its row shows the
\* not-equal sign.
C19_StaleEntriesAreBroken ==
    \A k \in 1..Len(previous) : Stale(previous, k) => previous[k].broken

\* C20: every entry but the last has a computed result; the values bound to
\* the back-references handed to the evaluator are computed values, and no
\* row but the first of a choice list (the current entry's) shows the
\* "nothing yet" text.
C20_OnlyCurrentIsNothingYet ==
    /\ \A k \in 1..(Len(previous) - 1) : previous[k].out # NothingYet
    /\ IsInputChange =>
          \A nm \in DOMAIN evaluated.locals : evaluated.locals[nm] # NothingYet
    /\ pc = "recv" =>
          \A k \in 2..Len(SentOptions) :
              LET i == Len(previous) - k
              IN /\ previous[i + 1].out # NothingYet
                 /\ SentOptions[k].text = RowText(i, previous[i + 1])

\* C20 witness: an evaluation on the third entry, given two bound results,
\* that failed and left the current entry without result
C20_Witness ==
    /\ IsInputChange /\ pc = "recv"
    /\ Len(previous) = 3
    /\ DOMAIN evaluated.locals = {"_0", "_1"}
    /\ evaluated.kind = "Exception"
    /\ Last(previous).out = NothingYet
    /\ Len(SentOptions) = 3

====
